---------------------------- MODULE Spec2Model ----------------------------
(*
  Model of lynxes/core/global_interpretation/feature_importance.py:
  FeatureImportance.feature_importance (the permutation-importance loop) and
  FeatureImportance.plot_feature_importance (the plotting wrapper).

  One behaviour is one call.  The call's inputs (dataset, prediction function,
  y_true, ascending) are drawn in Init; every statement of the two methods that
  changes state is one action.  Datasets live in a small heap of tables so that
  "the copy has its own storage" is a fact of the model and not of the notation.

  Numbers: cells and predictions are small integers.  A float score is kept in
  fixed point, in units of 1/Scale, and np.std rounds down to that unit.  The
  quotient of the normalisation is kept as the exact pair <<numerator,
  denominator>>; <<0, 0>> is the IEEE 0.0/0.0, i.e. NaN.
*)
EXTENDS Integers, Sequences, FiniteSets, TLC

\* ------------------------------------------------------------------ bounds
MaxFeatures == 2      \* a dataset has 0..MaxFeatures feature columns
NRows == 2            \* rows of every dataset
Scale == 10           \* fixed-point unit of a float score: 1/Scale

CellValues == {0, 1}  \* what a dataset cell or a y_true entry may hold
None == <<>>          \* Python's None (an absent y_true, an unset local)

Rows == 1..NRows
\* the columns a dataset or a y_true is built from: all zeros, all ones, and the
\* two alternating columns (with two rows, every column over CellValues)
Columns == {c \in [Rows -> CellValues] :
              \/ \A r \in Rows : c[r] = c[1]
              \/ \A r \in Rows : c[r] = r % 2
              \/ \A r \in Rows : c[r] = (r + 1) % 2}
Tables == UNION {[1..k -> Columns] : k \in 0..MaxFeatures}
PredictFns == {"constant", "fixed", "weighted", "proba"}
PredictErrors == {"ValueError", "RuntimeError"}  \* what a failing predict raises

VARIABLES
  pc,                   \* position in the call
  caller,               \* "feature_importance" | "plot_feature_importance"
  heap,                 \* sequence of tables: the storage of every DataManager
  data0,                \* the dataset's table as it was when the call began
  copy_of_data_set,     \* heap reference of the working copy, 0 before line 65
  predict_fn,           \* which prediction function the caller passed
  y_true,               \* None or a target vector
  ascending,            \* the ascending parameter
  original_predictions, \* line 58
  i,                    \* index in feature_ids of the feature in the loop body
  new_predictions,      \* line 78
  importances,          \* lines 57, 83: the dict of raw scores, by feature id
  series,               \* line 88: the sorted Series of <<feature id, raw score>>
  result,               \* line 89: the Series of <<feature id, quotient>>
  calls,                \* every predict call so far, in order, as
                        \* <<heap reference of the argument, feature perturbed
                        \* in it (0 if none), "ok" or the error it raised>>
  exc,                  \* the exception the call ended with, "none" otherwise
  pyplot,               \* line 124: "unbound", then "bound", or the error the
                        \* import raised
  drawn                 \* what was handed to the bar plot, None if nothing

vars == <<pc, caller, heap, data0, copy_of_data_set, predict_fn, y_true,
          ascending, original_predictions, i, new_predictions, importances,
          series, result, calls, exc, pyplot, drawn>>

\* ------------------------------------------------------------ arithmetic
RECURSIVE SumSeq(_)
SumSeq(s) == IF s = <<>> THEN 0 ELSE Head(s) + SumSeq(Tail(s))

\* floor of the square root
ISqrt(x) == CHOOSE r \in 0..x : r * r <= x /\ (r + 1) * (r + 1) > x

\* Std without the mean taken off: the root mean square
StdUncentered(v) ==
  LET m == Len(v)
      sq == [k \in 1..m |-> v[k] * v[k]]
  IN ISqrt(m * SumSeq(sq) * Scale * Scale) \div m

\* np.std(v) of one column of Len(v) >= 1 numbers, in units of 1/Scale:
\* sqrt(mean(v^2) - mean(v)^2) = sqrt(n*sum(v^2) - sum(v)^2) / n
Std(v) ==
  LET m == Len(v)
      sq == [k \in 1..m |-> v[k] * v[k]]
      mvar == m * SumSeq(sq) - SumSeq(v) * SumSeq(v)
  IN ISqrt(mvar * Scale * Scale) \div m

\* np.mean of a non-empty sequence of fixed-point numbers
Mean(s) == SumSeq(s) \div Len(s)

\* ------------------------------------------------- collaborators (not in src)
\* DataManager.__getitem__: the values of one column
GetItem(h, ref, f) == h[ref][f]

\* DataManager.__setitem__: replace one column of the table behind ref
SetItem(h, ref, f, col) == [h EXCEPT ![ref] = [@ EXCEPT ![f] = col]]

\* DataManager(data, feature_names, index): a table of its own, equal to data
NewDataManager(h, data) == Append(h, data)

\* DataManager.generate_column_sample(f, n_samples = k, method = 'random-choice'):
\* every vector of k draws, with replacement, from the column's observed values
GenerateColumnSample(h, ref, f, k) ==
  [1..k -> {GetItem(h, ref, f)[r] : r \in Rows}]

\* model_instance.predict(X): an array of one prediction row per row of X, as
\* the sequence of its columns (one column for a 1-d output).
\*   constant: the same value in every row, whatever X is
\*   fixed:    the same output whatever X is, not the same in every row
\*   weighted: sum over the features f of f * X[f]
\*   proba:    two columns, the first feature and its complement
Predict(fn, X) ==
  LET nf == Len(X)
      first == [r \in Rows |-> IF nf = 0 THEN 0 ELSE X[1][r]]
  IN CASE fn = "constant" -> << [r \in Rows |-> 1] >>
       [] fn = "fixed" -> << [r \in Rows |-> r % 2] >>
       [] fn = "weighted" ->
            << [r \in Rows |-> SumSeq([f \in 1..nf |-> f * X[f][r]])] >>
       [] fn = "proba" -> << first, [r \in Rows |-> 1 - first[r]] >>

\* the y_true arguments: none, or a vector of targets
YTrueChoices == {None} \cup Columns

\* ------------------------------------------------------------ the engine
\* Minus that forgets to take the baseline off
MinusNothing(a, b) == a

\* numpy's a - b for two arrays of the same shape
Minus(a, b) == [c \in 1..Len(a) |-> [r \in 1..Len(a[c]) |-> a[c][r] - b[c][r]]]

\* line 82: np.mean(np.std(changes_in_predictions, axis=0))
Importance(changes) == Mean([c \in 1..Len(changes) |-> Std(changes[c])])

\* SortValues that always sorts ascending, whatever was asked
SortValuesAscending(d, asc) ==
  LET m == Len(d)
      perms == {p \in [1..m -> 1..m] : \A a, b \in 1..m : a # b => p[a] # p[b]}
      ordered(p) == \A k \in 1..m - 1 : d[p[k]] <= d[p[k + 1]]
  IN {[k \in 1..m |-> <<p[k], d[p[k]]>>] : p \in {q \in perms : ordered(q)}}

\* SortValues that loses the last item of the sorted Series
SortValuesTruncated(d, asc) ==
  LET m == Len(d)
      perms == {p \in [1..m -> 1..m] : \A a, b \in 1..m : a # b => p[a] # p[b]}
      ordered(p) == \A k \in 1..m - 1 :
                      IF asc THEN d[p[k]] <= d[p[k + 1]] ELSE d[p[k]] >= d[p[k + 1]]
  IN {[k \in 1..m - 1 |-> <<p[k], d[p[k]]>>] : p \in {q \in perms : ordered(q)}}

\* the orders sort_values may return for the dict d: every arrangement of its
\* items in which the scores are ordered as asked (ties in any order)
SortValues(d, asc) ==
  LET m == Len(d)
      perms == {p \in [1..m -> 1..m] : \A a, b \in 1..m : a # b => p[a] # p[b]}
      ordered(p) == \A k \in 1..m - 1 :
                      IF asc THEN d[p[k]] <= d[p[k + 1]] ELSE d[p[k]] >= d[p[k + 1]]
  IN {[k \in 1..m |-> <<p[k], d[p[k]]>>] : p \in {q \in perms : ordered(q)}}

\* Series.sum() of the scores
SeriesSum(s) == SumSeq([k \in 1..Len(s) |-> s[k][2]])

\* the largest score of a Series, 0 if it is empty
SeriesMax(s) ==
  IF s = <<>> THEN 0
  ELSE CHOOSE x \in {s[k][2] : k \in 1..Len(s)} : \A k \in 1..Len(s) : s[k][2] <= x

\* Normalized that divides by the largest score
NormalizedByMax(s) == [k \in 1..Len(s) |-> <<s[k][1], <<s[k][2], SeriesMax(s)>>>>]

\* Normalized that divides by the number of scores
NormalizedByCount(s) ==
  [k \in 1..Len(s) |-> <<s[k][1], <<s[k][2], Len(s) * Scale>>>>]

\* line 89: importances / importances.sum(), each quotient kept exact
Normalized(s) == [k \in 1..Len(s) |-> <<s[k][1], <<s[k][2], SeriesSum(s)>>>>]

self_data_set == 1    \* heap reference of self.data_set
NumFeatures == Len(heap[self_data_set])
feature_id == i       \* the loop variable: feature_ids is <<1, ..., NumFeatures>>
n == Len(original_predictions[1])   \* line 59: original_predictions.shape[0]

\* the arguments of a call, and the locals before the first statement
InitCall ==
  /\ \E t \in Tables : heap = <<t>> /\ data0 = t
  /\ copy_of_data_set = 0
  /\ predict_fn \in PredictFns
  /\ y_true \in YTrueChoices
  /\ predict_fn = "proba" => y_true = None
  /\ ascending \in BOOLEAN
  /\ original_predictions = None
  /\ i = 0
  /\ new_predictions = None
  /\ importances = <<>>
  /\ series = None
  /\ result = None
  /\ calls = <<>>
  /\ exc = "none"
  /\ pyplot = "unbound"
  /\ drawn = None

\* the caller calls feature_importance
Init ==
  /\ InitCall
  /\ caller = "feature_importance"
  /\ pc = "baseline"

\* the caller calls plot_feature_importance
InitPlot ==
  /\ InitCall
  /\ caller = "plot_feature_importance"
  /\ pc = "import"

\* an exception leaves the call: neither method has a handler for it
Raise(e) ==
  /\ exc' = e
  /\ pc' = "raised"

\* ResolvePyplot with "except ImportError: pass"
ResolvePyplotSwallowed ==
  /\ pc = "import"
  /\ \E outcome \in {"bound", "ImportError", "RuntimeError"} :
       /\ pyplot' = outcome
       /\ CASE outcome = "bound" -> pc' = "baseline" /\ exc' = exc
            [] outcome = "ImportError" -> pc' = "baseline" /\ exc' = exc
            [] outcome = "RuntimeError" -> Raise("MatplotlibDisplayError")
  /\ UNCHANGED <<caller, heap, data0, copy_of_data_set, predict_fn, y_true,
                 ascending, original_predictions, i, new_predictions,
                 importances, series, result, calls, drawn>>

\* lines 122-128: bind matplotlib.pyplot, or fail
ResolvePyplot ==
  /\ pc = "import"
  /\ \E outcome \in {"bound", "ImportError", "RuntimeError"} :
       /\ pyplot' = outcome
       /\ CASE outcome = "bound" -> pc' = "baseline" /\ exc' = exc
            [] outcome = "ImportError" -> Raise("MatplotlibUnavailableError")
            [] outcome = "RuntimeError" -> Raise("MatplotlibDisplayError")
  /\ UNCHANGED <<caller, heap, data0, copy_of_data_set, predict_fn, y_true,
                 ascending, original_predictions, i, new_predictions,
                 importances, series, result, calls, drawn>>

\* Baseline that calls predict even when y_true is given
BaselineAlwaysPredicts ==
  /\ pc = "baseline"
  /\ \/ /\ calls' = Append(calls, <<self_data_set, 0, "ok">>)
        /\ original_predictions' = Predict(predict_fn, heap[self_data_set])
        /\ pc' = "copy"
        /\ exc' = exc
     \/ \E e \in PredictErrors :
          /\ calls' = Append(calls, <<self_data_set, 0, e>>)
          /\ Raise(e)
          /\ original_predictions' = original_predictions
  /\ UNCHANGED <<caller, heap, data0, copy_of_data_set, predict_fn, y_true,
                 ascending, i, new_predictions, importances, series, result,
                 pyplot, drawn>>

\* lines 57-59: the baseline is y_true when given, else predict on the dataset
Baseline ==
  /\ pc = "baseline"
  /\ IF y_true = None
       THEN \/ /\ calls' = Append(calls, <<self_data_set, 0, "ok">>)
               /\ original_predictions' = Predict(predict_fn, heap[self_data_set])
               /\ pc' = "copy"
               /\ exc' = exc
            \/ \E e \in PredictErrors :
                 /\ calls' = Append(calls, <<self_data_set, 0, e>>)
                 /\ Raise(e)
                 /\ original_predictions' = original_predictions
       ELSE /\ original_predictions' = <<y_true>>
            /\ pc' = "copy"
            /\ UNCHANGED <<calls, exc>>
  /\ UNCHANGED <<caller, heap, data0, copy_of_data_set, predict_fn, y_true,
                 ascending, i, new_predictions, importances, series, result,
                 pyplot, drawn>>

\* lines 65-67: the working copy
MakeCopy ==
  /\ pc = "copy"
  /\ heap' = NewDataManager(heap, heap[self_data_set])
  /\ copy_of_data_set' = Len(heap')
  /\ pc' = "loop"
  /\ UNCHANGED <<caller, data0, predict_fn, y_true, ascending,
                 original_predictions, i, new_predictions, importances, series,
                 result, calls, exc, pyplot, drawn>>

\* Perturb that writes the samples to self.data_set
PerturbDataSet ==
  /\ pc = "loop"
  /\ i < NumFeatures
  /\ i' = i + 1
  /\ \E samples \in GenerateColumnSample(heap, self_data_set, i + 1, n) :
       heap' = SetItem(heap, self_data_set, i + 1, samples)
  /\ pc' = "predict"
  /\ UNCHANGED <<caller, data0, copy_of_data_set, predict_fn, y_true, ascending,
                 original_predictions, new_predictions, importances, series,
                 result, calls, exc, pyplot, drawn>>

\* lines 69-72: the next feature; draw its samples and write them to the copy
Perturb ==
  /\ pc = "loop"
  /\ i < NumFeatures
  /\ i' = i + 1
  /\ \E samples \in GenerateColumnSample(heap, self_data_set, i + 1, n) :
       heap' = SetItem(heap, copy_of_data_set, i + 1, samples)
  /\ pc' = "predict"
  /\ UNCHANGED <<caller, data0, copy_of_data_set, predict_fn, y_true, ascending,
                 original_predictions, new_predictions, importances, series,
                 result, calls, exc, pyplot, drawn>>

\* PredictAndScore with the predict call in a try block that scores a failure 0
PredictAndScoreCaught ==
  /\ pc = "predict"
  /\ \/ /\ calls' = Append(calls, <<copy_of_data_set, feature_id, "ok">>)
        /\ new_predictions' = Predict(predict_fn, heap[copy_of_data_set])
        /\ importances' =
             Append(importances,
                    Importance(Minus(new_predictions', original_predictions)))
     \/ \E e \in PredictErrors :
          /\ calls' = Append(calls, <<copy_of_data_set, feature_id, e>>)
          /\ importances' = Append(importances, 0)
          /\ new_predictions' = new_predictions
  /\ pc' = "reset"
  /\ UNCHANGED <<caller, heap, data0, copy_of_data_set, predict_fn, y_true,
                 ascending, original_predictions, i, series, result, pyplot,
                 drawn, exc>>

\* lines 78-83: predict on the perturbed copy and score the feature
PredictAndScore ==
  /\ pc = "predict"
  /\ \/ /\ calls' = Append(calls, <<copy_of_data_set, feature_id, "ok">>)
        /\ new_predictions' = Predict(predict_fn, heap[copy_of_data_set])
        /\ importances' =
             Append(importances,
                    Importance(Minus(new_predictions', original_predictions)))
        /\ pc' = "reset"
        /\ exc' = exc
     \/ \E e \in PredictErrors :
          /\ calls' = Append(calls, <<copy_of_data_set, feature_id, e>>)
          /\ Raise(e)
          /\ UNCHANGED <<new_predictions, importances>>
  /\ UNCHANGED <<caller, heap, data0, copy_of_data_set, predict_fn, y_true,
                 ascending, original_predictions, i, series, result, pyplot,
                 drawn>>

\* ResetCopy that leaves the samples in the copy
ResetCopySkipped ==
  /\ pc = "reset"
  /\ pc' = "loop"
  /\ UNCHANGED <<caller, heap, data0, copy_of_data_set, predict_fn, y_true,
                 ascending, original_predictions, i, new_predictions,
                 importances, series, result, calls, exc, pyplot, drawn>>

\* line 86: write the dataset's column back to the copy
ResetCopy ==
  /\ pc = "reset"
  /\ heap' = SetItem(heap, copy_of_data_set, feature_id,
                     GetItem(heap, self_data_set, feature_id))
  /\ pc' = "loop"
  /\ UNCHANGED <<caller, data0, copy_of_data_set, predict_fn, y_true, ascending,
                 original_predictions, i, new_predictions, importances, series,
                 result, calls, exc, pyplot, drawn>>

\* line 88: the loop is over; the dict becomes a sorted Series
Sort ==
  /\ pc = "loop"
  /\ i = NumFeatures
  /\ series' \in SortValues(importances, ascending)
  /\ pc' = "normalize"
  /\ UNCHANGED <<caller, heap, data0, copy_of_data_set, predict_fn, y_true,
                 ascending, original_predictions, i, new_predictions,
                 importances, result, calls, exc, pyplot, drawn>>

\* line 89: divide by the sum
Normalize ==
  /\ pc = "normalize"
  /\ result' = Normalized(series)
  /\ pc' = "return"
  /\ UNCHANGED <<caller, heap, data0, copy_of_data_set, predict_fn, y_true,
                 ascending, original_predictions, i, new_predictions,
                 importances, series, calls, exc, pyplot, drawn>>

\* line 90: back to the caller, or to line 130 of plot_feature_importance
Return ==
  /\ pc = "return"
  /\ pc' = IF caller = "plot_feature_importance" THEN "draw" ELSE "done"
  /\ UNCHANGED <<caller, heap, data0, copy_of_data_set, predict_fn, y_true,
                 ascending, original_predictions, i, new_predictions,
                 importances, series, result, calls, exc, pyplot, drawn>>

\* x is NaN: the quotient 0.0 / 0.0
IsNaN(x) == x[2] = 0

\* a <= b for two quotients; every comparison with NaN is false
QLeq(a, b) == ~IsNaN(a) /\ ~IsNaN(b) /\ a[1] * b[2] <= b[1] * a[2]

\* lines 132-145: the bars, in the order opposite to the one asked for
\* (sort_values puts NaN last)
Draw ==
  /\ pc = "draw"
  /\ \E p \in {q \in [1..Len(result) -> 1..Len(result)] :
                 \A a, b \in 1..Len(result) : a # b => q[a] # q[b]} :
       /\ \A k \in 1..Len(result) - 1 :
            LET x == result[p[k]][2]
                y == result[p[k + 1]][2]
            IN \/ IsNaN(y)
               \/ IF ascending THEN QLeq(y, x) ELSE QLeq(x, y)
       /\ drawn' = [k \in 1..Len(result) |-> result[p[k]]]
  /\ pc' = "done"
  /\ UNCHANGED <<caller, heap, data0, copy_of_data_set, predict_fn, y_true,
                 ascending, original_predictions, i, new_predictions,
                 importances, series, result, calls, exc, pyplot>>

\* feature_importance, statement by statement
Next ==
  \/ Baseline
  \/ MakeCopy
  \/ Perturb
  \/ PredictAndScore
  \/ ResetCopy
  \/ Sort
  \/ Normalize
  \/ Return

\* plot_feature_importance, which runs feature_importance at line 130
NextPlot ==
  \/ ResolvePyplot
  \/ Next
  \/ Draw

Spec == Init /\ [][Next]_vars
SpecPlot == InitPlot /\ [][NextPlot]_vars

\* ------------------------------------------------------------- properties
\* feature_importance has computed what it returns
Finished == pc \in {"return", "draw", "done"}

\* every raw score of the dict is zero
Degenerate == \A k \in 1..Len(importances) : importances[k] = 0

\* x is the quotient 1.0
IsOne(x) == ~IsNaN(x) /\ x[1] = x[2]

\* the exact sum of the quotients of a Series is 1
RECURSIVE DenProduct(_)
DenProduct(s) == IF s = <<>> THEN 1 ELSE Head(s)[2][2] * DenProduct(Tail(s))
RECURSIVE NumOverProduct(_)
NumOverProduct(s) ==
  IF s = <<>> THEN 0
  ELSE Head(s)[2][1] * DenProduct(Tail(s)) + Head(s)[2][2] * NumOverProduct(Tail(s))
SumsToOne(s) ==
  /\ \A k \in 1..Len(s) : ~IsNaN(s[k][2])
  /\ NumOverProduct(s) = DenProduct(s)

\* the quotients of a Series are in the order asked for
Ordered(s, asc) ==
  \A k \in 1..Len(s) - 1 :
    IF asc THEN QLeq(s[k][2], s[k + 1][2]) ELSE QLeq(s[k + 1][2], s[k][2])

\* C1: the working copy equals the original dataset at the start of every loop
\* iteration and after the loop, and while feature i is perturbed and predicted
\* it differs from the original in no column but i.
CopyRestored ==
  /\ pc \in {"loop", "normalize", "return", "draw", "done"}
       => heap[copy_of_data_set] = data0
  /\ pc \in {"predict", "reset"}
       => \A g \in 1..NumFeatures : g # i => heap[copy_of_data_set][g] = data0[g]

\* C1 witness: the second feature is about to be perturbed after the first one's
\* samples changed the predictions
CopyRestoredWitness ==
  /\ pc = "loop"
  /\ i = 1
  /\ NumFeatures = 2
  /\ importances[1] > 0

\* C2: the working copy is a table of its own, and the original dataset holds
\* the values it had before the call in every state of the call.
OriginalUnchanged ==
  /\ heap[self_data_set] = data0
  /\ copy_of_data_set # self_data_set

\* C2 witness: the call returned after a perturbation that changed the copy's
\* predictions
OriginalUnchangedWitness ==
  /\ pc = "done"
  /\ NumFeatures >= 1
  /\ importances[1] > 0

\* C3: when the raw scores are not all zero, every returned score is the raw
\* score over the sum of the raw scores, is non-negative, and the returned
\* scores sum to 1.
NormalizedScores ==
  Finished /\ NumFeatures >= 1 /\ ~Degenerate
    => /\ \A k \in 1..Len(result) :
            /\ result[k][2] = <<importances[result[k][1]], SumSeq(importances)>>
            /\ result[k][2][1] >= 0
            /\ result[k][2][2] > 0
       /\ SumsToOne(result)

\* C3 witness: two features with different non-zero scores
NormalizedScoresWitness ==
  /\ pc = "done"
  /\ Len(importances) = 2
  /\ importances[1] > 0
  /\ importances[2] > importances[1]

\* C4: the result has exactly one entry per feature id of the dataset (none for
\* a dataset without features).
KeysAreFeatureIds ==
  Finished
    => /\ Len(result) = NumFeatures
       /\ {result[k][1] : k \in 1..Len(result)} = 1..NumFeatures

\* C4 witness: a result for two features
KeysAreFeatureIdsWitness ==
  /\ pc = "done"
  /\ NumFeatures = 2
  /\ Len(result) = 2

\* C5 as claimed: the returned scores are in the order asked for.
OrderedAsRequested == Finished => Ordered(result, ascending)

\* C5 amended: the sorted Series is in the order asked for, and so are the
\* returned scores unless every raw score is zero; then every returned score is
\* NaN.
OrderedUnlessDegenerate ==
  /\ pc \in {"normalize", "return", "draw", "done"}
       => \A k \in 1..Len(series) - 1 :
            IF ascending THEN series[k][2] <= series[k + 1][2]
                         ELSE series[k][2] >= series[k + 1][2]
  /\ Finished /\ ~Degenerate => Ordered(result, ascending)
  /\ Finished /\ Degenerate => \A k \in 1..Len(result) : IsNaN(result[k][2])

\* C5 witness: a descending result with two different scores
OrderedWitness ==
  /\ pc = "done"
  /\ ~ascending
  /\ Len(result) = 2
  /\ result[1][2][1] > result[2][2][1]

\* C6 as claimed: the only feature of a one-feature dataset scores 1.0.
SingleFeatureIsOne ==
  Finished /\ NumFeatures = 1 => IsOne(result[1][2])

\* C6 amended: the only feature of a one-feature dataset scores 1.0 when its raw
\* score is not zero, and NaN when it is.
SingleFeatureOneOrNaN ==
  Finished /\ NumFeatures = 1
    => IF importances[1] # 0 THEN IsOne(result[1][2]) ELSE IsNaN(result[1][2])

\* C6 witness: a one-feature call that returned 1.0
SingleFeatureWitness ==
  /\ pc = "done"
  /\ NumFeatures = 1
  /\ IsOne(result[1][2])

\* the output of the prediction function does not depend on its input
InputIndependent == predict_fn \in {"constant", "fixed"}

\* C7 as claimed: with an input-independent prediction function every raw score
\* is zero and the call returns the all-NaN result.
ConstantPredictAllZero ==
  InputIndependent /\ NumFeatures >= 1
    => /\ Degenerate
       /\ Finished => /\ Len(result) = NumFeatures
                      /\ \A k \in 1..Len(result) : IsNaN(result[k][2])

\* C7 amended: the same, for calls without y_true or with y_true equal to the
\* output of the prediction function.
ConstantPredictAllZeroNoTargets ==
  InputIndependent /\ NumFeatures >= 1
  /\ (y_true = None \/ <<y_true>> = Predict(predict_fn, data0))
    => /\ Degenerate
       /\ exc \in {"none"} \cup PredictErrors
       /\ Finished => /\ Len(result) = NumFeatures
                      /\ \A k \in 1..Len(result) : IsNaN(result[k][2])

\* C7 witness: a call with an input-independent prediction function whose
\* output varies across rows returned NaN for two features
ConstantPredictWitness ==
  /\ pc = "done"
  /\ predict_fn = "fixed"
  /\ NumFeatures = 2
  /\ y_true = None
  /\ IsNaN(result[1][2])
  /\ IsNaN(result[2][2])

\* C8: a predict call that fails is the last one, the call ends with the error
\* it raised, nothing is returned or drawn, and nothing runs after it.
FailureEndsCall ==
  \A k \in 1..Len(calls) :
    calls[k][3] # "ok"
      => /\ k = Len(calls)
         /\ pc = "raised"
         /\ exc = calls[k][3]
         /\ series = None
         /\ result = None
         /\ drawn = None
PredictFailurePropagates == []FailureEndsCall /\ [][pc # "raised"]_vars

\* C8 witness: predict failed on the second feature's perturbed copy
PredictFailureWitness ==
  /\ pc = "raised"
  /\ Len(calls) = 3
  /\ calls[3] = <<copy_of_data_set, 2, "RuntimeError">>

\* the predict calls of a successful call: the baseline call if y_true is None,
\* then one per feature, in the order of feature_ids, on the working copy
ExpectedCalls ==
  (IF y_true = None THEN << <<self_data_set, 0, "ok">> >> ELSE <<>>)
    \o [k \in 1..NumFeatures |-> <<copy_of_data_set, k, "ok">>]

\* C9: a successful call makes exactly the predict calls of ExpectedCalls; with
\* y_true supplied predict never gets the unperturbed dataset and y_true is the
\* baseline of every feature's delta.
PredictCalls ==
  /\ Finished => calls = ExpectedCalls
  /\ \A k \in 1..Len(calls) :
       /\ calls[k][1] = self_data_set => y_true = None /\ k = 1
       /\ calls[k][1] # self_data_set => calls[k][1] = copy_of_data_set
  /\ y_true # None /\ pc # "baseline" => original_predictions = <<y_true>>
  /\ y_true # None /\ pc = "reset"
       => importances[i] = Importance(Minus(new_predictions, <<y_true>>))

\* C9 witness: a call with y_true returned scores for two features
PredictCallsWitness ==
  /\ pc = "done"
  /\ y_true # None
  /\ Len(calls) = 2
  /\ importances[2] > 0

\* C10: when binding pyplot fails, plot_feature_importance ends with the
\* matching error before predict is called, a copy is made or anything is
\* drawn; feature_importance runs only with pyplot bound.
PlotFailsBeforeEngine ==
  /\ pyplot = "ImportError" => pc = "raised" /\ exc = "MatplotlibUnavailableError"
  /\ pyplot = "RuntimeError" => pc = "raised" /\ exc = "MatplotlibDisplayError"
  /\ pyplot # "bound"
       => /\ calls = <<>>
          /\ copy_of_data_set = 0
          /\ original_predictions = None
          /\ result = None
          /\ drawn = None

\* C10 witness: the import failed for a dataset with features
PlotFailsWitness ==
  /\ pc = "raised"
  /\ exc = "MatplotlibUnavailableError"
  /\ NumFeatures = 2

====
